---- MODULE Spec2Model ----
(***************************************************************************)
(* Model of pa-uav-noma.py: a Monte Carlo simulation of fixed power        *)
(* allocation for a two-user UAV-NOMA downlink.                            *)
(*                                                                         *)
(* The script is a sequential program.  The model follows its statements   *)
(* in order, one action per call or block of the trial loop (pc names the  *)
(* statement to execute next).  The random draws of a statement are the    *)
(* inputs of its action, taken from small sets.                            *)
(*                                                                         *)
(* Real numbers are held in fixed point:                                   *)
(*   - positions in metres (integers), the normal variates in tenths,      *)
(*   - channel gains in units of 1/GainUnit,                               *)
(*   - power coefficients in tenths,                                       *)
(*   - SINRs and rates in units of 1/One (One = 2^14), rounded down.       *)
(* The program is written for a NumPy that still provides np.complex.      *)
(***************************************************************************)
EXTENDS Integers, Sequences, FiniteSets, TLC

\* ------------------------------------------------------------------------
\* Bound of the model

\* Number of trials run by the model (N_mc = 10**4 in the program).
MaxTrials == 2

\* ------------------------------------------------------------------------
\* Parameters (lines 23-47)

N_mc == MaxTrials
N_users == 2
M_uav == 1
path_loss_exp == 2

\* snr_dB = np.array(range(10, 51, 2)), indexed from 0 as in the program
snr_dB == [sn \in 0..20 |-> 10 + 2 * sn]

\* snr_linear = 10**(snr_dB/10), each entry rounded to the nearest integer
snr_linear ==
    [sn \in 0..20 |->
        << 10, 16, 25, 40, 63, 100, 158, 251, 398, 631, 1000, 1585, 2512,
           3981, 6310, 10000, 15849, 25119, 39811, 63096, 100000 >>[sn + 1]]

\* len(snr_dB)
LenSnr == Cardinality(DOMAIN snr_dB)

SnrIdx == 0..(LenSnr - 1)
TrialIdx == 0..(N_mc - 1)
UserIdx == 0..(N_users - 1)

\* ------------------------------------------------------------------------
\* Fixed-point arithmetic

\* 1.0 as a rate or an SINR
One == 2^14

\* 1.0 as a channel gain
GainUnit == 10^5

\* 1.0 as a power coefficient
PowerUnit == 10^1

\* target_rate_primary_user = 1.0 and target_rate_secondary_user = 0.5
TargetPrimaryShipped == One
TargetSecondaryShipped == One \div 2

\* powerCoeff = [0.8, 0.2]
PowerCoeffShipped == [i \in 0..1 |-> IF i = 0 THEN 8 ELSE 2]

\* An intermediate result that is used several times is bound as the one
\* element of a singleton set ({ e(x) : x \in {...} }), so that it is
\* computed once.

\* the first `bits` binary digits of r/d after the point, for 0 <= r < d
RECURSIVE DivBits(_, _, _)
DivBits(r, d, bits) ==
    IF bits = 0 THEN 0
    ELSE CHOOSE q \in { IF r2 >= dv
                        THEN 2^left + DivBits(r2 - dv, dv, left)
                        ELSE DivBits(r2, dv, left)
                        : r2 \in {2 * r}, dv \in {d}, left \in {bits - 1} } : TRUE

\* n / d in units of 1/One, rounded down (n >= 0, d > 0)
FixDiv(n, d) ==
    CHOOSE q \in { (a \div b) * One + DivBits(a % b, b, 14) : a \in {n}, b \in {d} } : TRUE

\* the k with 2^k <= q < 2^(k+1), for q >= 1
RECURSIVE Log2Floor(_)
Log2Floor(q) == IF q < 2 THEN 0 ELSE 1 + Log2Floor(q \div 2)

\* 2 atanh(z) = 2 (z + z^3/3 + z^5/5 + z^7/7 + z^9/9) in units of 1/One,
\* for z in units of 2^-15, 0 <= z < 1/3
TwoAtanh(z) ==
    LET z2 == (z * z) \div 2^15
        t3 == (z * z2) \div 2^15
        t5 == (t3 * z2) \div 2^15
        t7 == (t5 * z2) \div 2^15
        t9 == (t7 * z2) \div 2^15
    IN  z + (t3 \div 3) + (t5 \div 5) + (t7 \div 7) + (t9 \div 9)

\* ln(a) for a = 2^k * m with 1 <= m < 2: k ln 2 + 2 atanh((m-1)/(m+1))
LnParts(a, k) ==
    CHOOSE y \in { TwoAtanh(z) + ((k * 726817) \div 64)
                   : z \in {DivBits(a - One * 2^k, a + One * 2^k, 15)} } : TRUE

\* np.log(a) for a >= 1, argument and result in units of 1/One.  The
\* result is within 5/One of the logarithm and is non-decreasing in a.
LnFix(a) ==
    CHOOSE y \in { LnParts(v, Log2Floor(v \div One)) : v \in {a} } : TRUE

\* np.log(1 + sinr), for sinr >= 0
Log1p(sinr) == LnFix(One + sinr)

\* the integer square root of n, known to lie in lo..hi
RECURSIVE IsqrtBetween(_, _, _)
IsqrtBetween(n, lo, hi) ==
    IF lo >= hi THEN lo
    ELSE CHOOSE r \in { IF mid * mid <= n
                        THEN IsqrtBetween(n, mid, hi)
                        ELSE IsqrtBetween(n, lo, mid - 1)
                        : mid \in {(lo + hi + 1) \div 2} } : TRUE

\* the integer square root (n < 2^30)
Isqrt(n) == CHOOSE r \in { IsqrtBetween(v, 0, 2^15) : v \in {n} } : TRUE

Max2(a, b) == IF a >= b THEN a ELSE b
Min2(a, b) == IF a <= b THEN a ELSE b

Zeros(S) == [i \in S |-> 0]
Zeros2(S, T) == [i \in S |-> [j \in T |-> 0]]

\* ------------------------------------------------------------------------
\* The random draws

\* np.random.rand()*(2 pi): the angle, in quarter turns
ThetaSet == {0, 2}

\* sqrt(np.random.rand()), in halves
RootUSet == {0, 1}

\* np.random.normal(s, sigma) and np.random.normal(0, sigma), in tenths
NormalRealSet == {7, 10}
NormalImagSet == {0, 3}

\* np.cos and np.sin of an angle of q quarter turns
Cos(q) == << 1, 0, -1, 0 >>[(q % 4) + 1]
Sin(q) == << 0, 1, 0, -1 >>[(q % 4) + 1]

\* ------------------------------------------------------------------------
\* State

VARIABLES
    \* the configuration (lines 39-47)
    target_rate_primary_user, target_rate_secondary_user, powerCoeff,
    radius_uav, radius_user,
    \* the statement to execute next, and the loop variable of line 62
    pc, mc,
    \* the positions of the trial (lines 115-116)
    uav_AxisX, uav_AxisY, uav_heigth, user_AxisX, user_AxisY,
    \* the buffers of lines 119-120
    h_n, distance,
    \* lines 164-165
    channelGainPrimary, channelGainSecondary,
    \* the buffers of lines 173-176
    sinr_primary, sinr_secondary, inst_rate_primary, inst_rate_secondary,
    \* the per-trial result arrays (lines 53-58)
    instantaneous_rate_primary, instantaneous_rate_secondary,
    out_probability_system, out_probability_primary_user,
    out_probability_secondary_user, average_rate,
    \* the names bound by the FIGURES block (lines 248-250, 268)
    out_prob_mean, out_prob_primary, out_prob_secondary, average_rate_mean,
    \* history: the gain pairs handed to calculate_Instantaneous_Rate, one
    \* per call (line 218)
    handed

config == << target_rate_primary_user, target_rate_secondary_user,
             powerCoeff, radius_uav, radius_user >>
geometry == << uav_AxisX, uav_AxisY, uav_heigth, user_AxisX, user_AxisY >>
channel == << h_n, distance, channelGainPrimary, channelGainSecondary >>
buffers == << sinr_primary, sinr_secondary, inst_rate_primary,
              inst_rate_secondary >>
rates == << instantaneous_rate_primary, instantaneous_rate_secondary >>
outages == << out_probability_system, out_probability_primary_user,
              out_probability_secondary_user, average_rate >>
figures == << out_prob_mean, out_prob_primary, out_prob_secondary,
              average_rate_mean >>
vars == << config, pc, mc, geometry, channel, buffers, rates, outages,
           figures, handed >>

\* a name that no statement has bound
Unbound == "unbound"

\* ------------------------------------------------------------------------
\* The functions of the trial loop

\* random_Position_UAV (lines 64-89), theta_r the angle drawn
random_Position_UAV(numberUAV, radiusUAV, theta_r) ==
    LET rho_r == radiusUAV
    IN  [x_r |-> rho_r * Cos(theta_r), y_r |-> rho_r * Sin(theta_r), z_r |-> 30]

\* random_Position_Users (lines 91-113), theta_u and root_u the draws of
\* each user
random_Position_Users(numberUsers, radiusUser, theta_u, root_u) ==
    LET rho_u == [uu \in 0..(numberUsers - 1) |-> (root_u[uu] * radiusUser) \div 2]
    IN  [x_u |-> [uu \in 0..(numberUsers - 1) |-> rho_u[uu] * Cos(theta_u[uu])],
         y_u |-> [uu \in 0..(numberUsers - 1) |-> rho_u[uu] * Sin(theta_u[uu])]]

\* |ch_coeff|^2 of line 157, in hundredths: ch_coeff is a square root of
\* re^2 + 1j*im^2, so |ch_coeff|^2 = |re^2 + 1j*im^2| = sqrt(re^4 + im^4)
FadingPower(re, im) == Isqrt(re * re * re * re + im * im * im * im)

\* line 158, held squared: the program only uses distance[uu]**path_loss
\* with path_loss = 2
DistanceSquared(user_X, user_Y, uav_X, uav_Y, uav_Z) ==
    (user_X - uav_X) * (user_X - uav_X)
      + (user_Y - uav_Y) * (user_Y - uav_Y) + uav_Z * uav_Z

\* line 159: |ch_coeff / sqrt(1 + distance**path_loss)|**2 in units of
\* 1/GainUnit, for an even path_loss
ChannelCoefficient(re, im, dist2, path_loss) ==
    (FadingPower(re, im) * (GainUnit \div 100)) \div (1 + dist2^(path_loss \div 2))

\* the loop of lines 155-159 from user uu on: writes distance[uu] and
\* h_n[uu] of the buffers buf
RECURSIVE ChannelLoop(_, _, _, _, _, _, _, _, _, _, _)
ChannelLoop(buf, uu, numberUser, user_X, user_Y, uav_X, uav_Y, path_loss, uav_Z, re, im) ==
    IF uu >= numberUser THEN buf
    ELSE LET d == DistanceSquared(user_X[uu], user_Y[uu], uav_X, uav_Y, uav_Z)
             h == ChannelCoefficient(re[uu], im[uu], d, path_loss)
         IN  ChannelLoop([distance |-> [buf.distance EXCEPT ![uu] = d],
                          h_n |-> [buf.h_n EXCEPT ![uu] = h]],
                         uu + 1, numberUser, user_X, user_Y, uav_X, uav_Y,
                         path_loss, uav_Z, re, im)

\* sorted(h, reverse=True) (line 161), as a sequence
RECURSIVE SortedReverse(_, _)
SortedReverse(h, S) ==
    IF S = {} THEN << >>
    ELSE LET top == CHOOSE i \in S : \A j \in S : h[i] >= h[j]
         IN  << h[top] >> \o SortedReverse(h, S \ {top})

\* np.max and np.min of a non-empty sequence
RECURSIVE NpMax(_)
NpMax(s) == IF Len(s) = 1 THEN s[1] ELSE Max2(s[1], NpMax(Tail(s)))
RECURSIVE NpMin(_)
NpMin(s) == IF Len(s) = 1 THEN s[1] ELSE Min2(s[1], NpMin(Tail(s)))

\* generate_Channel (lines 123-162) on the buffers buf, with the normal
\* variates re[uu], im[uu] drawn for user uu: the buffers as it leaves them
\* and the list it returns
generate_Channel(buf, numberUser, user_X, user_Y, uav_X, uav_Y, path_loss, uav_Z, re, im) ==
    LET after == ChannelLoop(buf, 0, numberUser, user_X, user_Y, uav_X, uav_Y,
                             path_loss, uav_Z, re, im)
    IN  [distance |-> after.distance, h_n |-> after.h_n,
         channelGain |-> SortedReverse(after.h_n, DOMAIN after.h_n)]

\* line 206
SinrNOMA(snr, channelPri, channelSec, power) ==
    FixDiv(snr * channelPri * power[0],
           snr * channelSec * power[1] + PowerUnit * GainUnit)

\* line 210
SinrOMA(snr, channelPri) == FixDiv(snr * channelPri, GainUnit)

\* line 213
SinrSecondary(snr, channelSec, power) ==
    FixDiv(snr * channelSec * power[1], PowerUnit * GainUnit)

\* line 207
RateNOMA(sinr) == Log1p(sinr)

RateOMAFullBand(sinr) == Log1p(sinr)

\* line 211
RateOMA(sinr) == Log1p(sinr) \div 2

\* line 214
RateSecondary(sinr) == Log1p(sinr)

\* the test of line 209
FallsBack(rate, target_RatePri) == rate < target_RatePri

\* lines 210-211: sinr_primary[sn] and inst_rate_primary[sn] under OMA
PrimaryOMA(snr, channelPri) ==
    CHOOSE p \in { << s, RateOMA(s) >> : s \in {SinrOMA(snr, channelPri)} } : TRUE

\* lines 206-211: sinr_primary[sn] and inst_rate_primary[sn] as the loop
\* body leaves them
PrimaryAt(snr, channelPri, channelSec, power, target_RatePri) ==
    CHOOSE p \in { IF FallsBack(n[2], target_RatePri)
                   THEN PrimaryOMA(snr, channelPri)
                   ELSE n
                   : n \in { << s, RateNOMA(s) >>
                             : s \in {SinrNOMA(snr, channelPri, channelSec, power)} } }
           : TRUE

\* lines 213-214: sinr_secondary[sn] and inst_rate_secondary[sn]
SecondaryAt(snr, channelSec, power) ==
    CHOOSE p \in { << s, RateSecondary(s) >>
                   : s \in {SinrSecondary(snr, channelSec, power)} } : TRUE

\* the body of the loop of lines 204-214 at grid point sn, on the buffers buf
RateStep(buf, sn, channelPri, channelSec, power, target_RatePri) ==
    CHOOSE b \in { [buf EXCEPT !.sinr_primary[sn] = pri[1],
                               !.inst_rate_primary[sn] = pri[2],
                               !.sinr_secondary[sn] = sec[1],
                               !.inst_rate_secondary[sn] = sec[2]]
                   : pri \in {PrimaryAt(snr_linear[sn], channelPri, channelSec,
                                        power, target_RatePri)},
                     sec \in {SecondaryAt(snr_linear[sn], channelSec, power)} }
           : TRUE

\* the loop of lines 204-214 from grid point sn on
RECURSIVE RateLoop(_, _, _, _, _, _, _)
RateLoop(buf, sn, channelPri, channelSec, lenSnr, power, target_RatePri) ==
    IF sn >= lenSnr THEN buf
    ELSE CHOOSE b \in { RateLoop(after, next, channelPri, channelSec, lenSnr,
                                 power, target_RatePri)
                        : after \in {RateStep(buf, sn, channelPri, channelSec,
                                              power, target_RatePri)},
                          next \in {sn + 1} } : TRUE

\* calculate_Instantaneous_Rate (lines 177-216) on the buffers buf
calculate_Instantaneous_Rate(buf, channelPri, channelSec, snrValues, power, target_RatePri) ==
    RateLoop(buf, 0, channelPri, channelSec, Cardinality(DOMAIN snrValues),
             power, target_RatePri)

StoreRowBroadcast(arr, m, row) == [i \in DOMAIN arr |-> row]

\* arr[m,:] = row (line 218)
StoreRow(arr, m, row) == [arr EXCEPT ![m] = row]

OutageSystemBoth(ratePri, rateSec, targetPri, targetSec) ==
    IF ratePri < targetPri /\ rateSec < targetSec THEN 1 ELSE 0

\* lines 223-226
OutageSystem(ratePri, rateSec, targetPri, targetSec) ==
    IF ratePri < targetPri \/ rateSec < targetSec THEN 1 ELSE 0

\* lines 229-232
OutagePrimary(ratePri, targetPri) == IF ratePri < targetPri THEN 1 ELSE 0

OutageSecondaryReversed(rateSec, targetSec) == IF rateSec > targetSec THEN 1 ELSE 0

\* lines 235-238
OutageSecondary(rateSec, targetSec) == IF rateSec < targetSec THEN 1 ELSE 0

\* line 241
AverageRate(ratePri, rateSec) == (ratePri + rateSec) \div 2

\* the configuration a validating program would accept
ValidConfig ==
    /\ radius_uav >= 0
    /\ radius_user >= 0
    /\ powerCoeff[0] + powerCoeff[1] = PowerUnit
    /\ target_rate_primary_user >= 0
    /\ target_rate_secondary_user >= 0

HasNextTrialShort(m) == m + 1 < N_mc - 1

HasNextTrialValidated(m) == ValidConfig /\ m + 1 < N_mc

\* range(N_mc) has an element after m (line 62)
HasNextTrial(m) == m + 1 < N_mc

\* ------------------------------------------------------------------------
\* Initial states

\* the state once lines 23-58 have run, given the configuration
Start ==
    /\ pc = "for"
    /\ mc = -1
    /\ uav_AxisX = 0 /\ uav_AxisY = 0 /\ uav_heigth = 0
    /\ user_AxisX = Zeros(UserIdx) /\ user_AxisY = Zeros(UserIdx)
    /\ h_n = Zeros(UserIdx) /\ distance = Zeros(UserIdx)
    /\ channelGainPrimary = 0 /\ channelGainSecondary = 0
    /\ sinr_primary = Zeros(SnrIdx) /\ sinr_secondary = Zeros(SnrIdx)
    /\ inst_rate_primary = Zeros(SnrIdx) /\ inst_rate_secondary = Zeros(SnrIdx)
    /\ instantaneous_rate_primary = Zeros2(TrialIdx, SnrIdx)
    /\ instantaneous_rate_secondary = Zeros2(TrialIdx, SnrIdx)
    /\ out_probability_system = Zeros2(TrialIdx, SnrIdx)
    /\ out_probability_primary_user = Zeros2(TrialIdx, SnrIdx)
    /\ out_probability_secondary_user = Zeros2(TrialIdx, SnrIdx)
    /\ average_rate = Zeros2(TrialIdx, SnrIdx)
    /\ out_prob_mean = Unbound /\ out_prob_primary = Unbound
    /\ out_prob_secondary = Unbound /\ average_rate_mean = Unbound
    /\ handed = << >>

\* the parameters as the program sets them (lines 39-47)
Init ==
    /\ target_rate_primary_user = TargetPrimaryShipped
    /\ target_rate_secondary_user = TargetSecondaryShipped
    /\ powerCoeff = PowerCoeffShipped
    /\ radius_uav = 1
    /\ radius_user = 2
    /\ Start

\* ------------------------------------------------------------------------
\* The statements

\* for mc in range(N_mc) (line 62): the next trial, or the end of the loop
ForLoop ==
    /\ pc = "for"
    /\ IF HasNextTrial(mc)
       THEN mc' = mc + 1 /\ pc' = "position_uav"
       ELSE mc' = mc /\ pc' = "figures"
    /\ UNCHANGED << config, geometry, channel, buffers, rates, outages,
                    figures, handed >>

\* line 115
PositionUAV ==
    /\ pc = "position_uav"
    /\ \E theta_r \in ThetaSet :
         LET p == random_Position_UAV(M_uav, radius_uav, theta_r)
         IN  /\ uav_AxisX' = p.x_r
             /\ uav_AxisY' = p.y_r
             /\ uav_heigth' = p.z_r
    /\ pc' = "position_users"
    /\ UNCHANGED << config, mc, user_AxisX, user_AxisY, channel, buffers,
                    rates, outages, figures, handed >>

\* lines 116-120
PositionUsers ==
    /\ pc = "position_users"
    /\ \E theta_u \in [UserIdx -> ThetaSet], root_u \in [UserIdx -> RootUSet] :
         LET p == random_Position_Users(N_users, radius_user, theta_u, root_u)
         IN  /\ user_AxisX' = p.x_u
             /\ user_AxisY' = p.y_u
    /\ h_n' = Zeros(UserIdx)
    /\ distance' = Zeros(UserIdx)
    /\ pc' = "channel_primary"
    /\ UNCHANGED << config, mc, uav_AxisX, uav_AxisY, uav_heigth,
                    channelGainPrimary, channelGainSecondary, buffers, rates,
                    outages, figures, handed >>

\* line 164: a call of generate_Channel, and np.max of what it returns
ChannelPrimary ==
    /\ pc = "channel_primary"
    /\ \E re \in [UserIdx -> NormalRealSet], im \in [UserIdx -> NormalImagSet] :
         \E g \in { generate_Channel([distance |-> distance, h_n |-> h_n],
                         N_users, user_AxisX, user_AxisY, uav_AxisX,
                         uav_AxisY, path_loss_exp, uav_heigth, re, im) } :
             /\ distance' = g.distance
             /\ h_n' = g.h_n
             /\ channelGainPrimary' = NpMax(g.channelGain)
    /\ pc' = "channel_secondary"
    /\ UNCHANGED << config, mc, geometry, channelGainSecondary, buffers,
                    rates, outages, figures, handed >>

\* line 165: another call of generate_Channel, and np.min of what it returns
ChannelSecondary ==
    /\ pc = "channel_secondary"
    /\ \E re \in [UserIdx -> NormalRealSet], im \in [UserIdx -> NormalImagSet] :
         \E g \in { generate_Channel([distance |-> distance, h_n |-> h_n],
                         N_users, user_AxisX, user_AxisY, uav_AxisX,
                         uav_AxisY, path_loss_exp, uav_heigth, re, im) } :
             /\ distance' = g.distance
             /\ h_n' = g.h_n
             /\ channelGainSecondary' = NpMin(g.channelGain)
    /\ pc' = "rates"
    /\ UNCHANGED << config, mc, geometry, channelGainPrimary, buffers, rates,
                    outages, figures, handed >>

\* lines 173-218: fresh buffers, the call of calculate_Instantaneous_Rate
\* and the copy of what it returns into row mc of the rate arrays
InstantaneousRate ==
    /\ pc = "rates"
    /\ \E out \in { calculate_Instantaneous_Rate(
                        [sinr_primary |-> Zeros(SnrIdx),
                         sinr_secondary |-> Zeros(SnrIdx),
                         inst_rate_primary |-> Zeros(SnrIdx),
                         inst_rate_secondary |-> Zeros(SnrIdx)],
                        channelGainPrimary, channelGainSecondary, snr_dB,
                        powerCoeff, target_rate_primary_user) } :
           /\ sinr_primary' = out.sinr_primary
           /\ sinr_secondary' = out.sinr_secondary
           /\ inst_rate_primary' = out.inst_rate_primary
           /\ inst_rate_secondary' = out.inst_rate_secondary
           /\ instantaneous_rate_primary' =
                  StoreRow(instantaneous_rate_primary, mc, out.inst_rate_primary)
           /\ instantaneous_rate_secondary' =
                  StoreRow(instantaneous_rate_secondary, mc, out.inst_rate_secondary)
    /\ handed' = Append(handed, << channelGainPrimary, channelGainSecondary >>)
    /\ pc' = "outage"
    /\ UNCHANGED << config, mc, geometry, channel, outages, figures >>

\* lines 221-241: the classification of every grid point of trial mc
OutageLoop ==
    /\ pc = "outage"
    /\ out_probability_system' =
           [out_probability_system EXCEPT ![mc] =
               [sn \in SnrIdx |->
                   OutageSystem(instantaneous_rate_primary[mc][sn],
                                instantaneous_rate_secondary[mc][sn],
                                target_rate_primary_user,
                                target_rate_secondary_user)]]
    /\ out_probability_primary_user' =
           [out_probability_primary_user EXCEPT ![mc] =
               [sn \in SnrIdx |->
                   OutagePrimary(instantaneous_rate_primary[mc][sn],
                                 target_rate_primary_user)]]
    /\ out_probability_secondary_user' =
           [out_probability_secondary_user EXCEPT ![mc] =
               [sn \in SnrIdx |->
                   OutageSecondary(instantaneous_rate_secondary[mc][sn],
                                   target_rate_secondary_user)]]
    /\ average_rate' =
           [average_rate EXCEPT ![mc] =
               [sn \in SnrIdx |->
                   AverageRate(instantaneous_rate_primary[mc][sn],
                               instantaneous_rate_secondary[mc][sn])]]
    /\ pc' = "for"
    /\ UNCHANGED << config, mc, geometry, channel, buffers, rates, figures,
                    handed >>

\* lines 244-291: the FIGURES block is a string literal; evaluating it
\* computes nothing and binds no name
FiguresBlock ==
    /\ pc = "figures"
    /\ pc' = "done"
    /\ UNCHANGED << config, mc, geometry, channel, buffers, rates, outages,
                    figures, handed >>

Next ==
    \/ ForLoop
    \/ PositionUAV
    \/ PositionUsers
    \/ ChannelPrimary
    \/ ChannelSecondary
    \/ InstantaneousRate
    \/ OutageLoop
    \/ FiguresBlock

Spec == Init /\ [][Next]_vars

\* The script runs to its end: no statement waits for anything.
FairSpec == Init /\ [][Next]_vars /\ WF_vars(Next)

\* the configurations tried in place of lines 39-47: the program's own, power
\* coefficients that sum to 1.1, a negative primary target rate, and a
\* negative user radius
ConfigSet ==
    { [targetPri |-> TargetPrimaryShipped, targetSec |-> TargetSecondaryShipped,
       power |-> PowerCoeffShipped, rUav |-> 1, rUser |-> 2],
      [targetPri |-> TargetPrimaryShipped, targetSec |-> TargetSecondaryShipped,
       power |-> [i \in 0..1 |-> IF i = 0 THEN 8 ELSE 3], rUav |-> 1, rUser |-> 2],
      [targetPri |-> 0 - (One \div 2), targetSec |-> TargetSecondaryShipped,
       power |-> PowerCoeffShipped, rUav |-> 1, rUser |-> 2],
      [targetPri |-> TargetPrimaryShipped, targetSec |-> TargetSecondaryShipped,
       power |-> PowerCoeffShipped, rUav |-> 1, rUser |-> 0 - 2] }

InitCfg ==
    /\ \E c \in ConfigSet :
          /\ target_rate_primary_user = c.targetPri
          /\ target_rate_secondary_user = c.targetSec
          /\ powerCoeff = c.power
          /\ radius_uav = c.rUav
          /\ radius_user = c.rUser
    /\ Start

SpecCfg == InitCfg /\ [][Next]_vars

\* ------------------------------------------------------------------------
\* Properties

\* the trials whose rows are complete
Completed ==
    { m \in TrialIdx : m < mc \/ (m = mc /\ pc \in {"for", "figures", "done"}) }

\* the rate of the primary user under NOMA at grid point sn, from the
\* formulas of the rate engine
NomaRateAt(sn, gp, gs) ==
    Log1p(FixDiv(snr_linear[sn] * gp * powerCoeff[0],
                 snr_linear[sn] * gs * powerCoeff[1] + PowerUnit * GainUnit))

\* the rate of the primary user under OMA at grid point sn
OmaRateAt(sn, gp) == Log1p(FixDiv(snr_linear[sn] * gp, GainUnit)) \div 2

\* the rate of the secondary user at grid point sn
SecondaryRateAt(sn, gs) ==
    Log1p(FixDiv(snr_linear[sn] * gs * powerCoeff[1], PowerUnit * GainUnit))

\* C1: in every trial the gain handed to calculate_Instantaneous_Rate as the
\* primary user's is at least the gain handed as the secondary user's.
C1_GainOrdering ==
    \A i \in DOMAIN handed : handed[i][1] >= handed[i][2]

\* C2: when calculate_Instantaneous_Rate has returned, at every grid point
\* the primary rate is the NOMA rate if that reaches the primary target and
\* the OMA rate if it does not, and the secondary rate is ln(1 + snr*gs*a_s).
C2_RatePerPoint ==
    pc = "outage" =>
        \A sn \in SnrIdx :
            LET noma == NomaRateAt(sn, channelGainPrimary, channelGainSecondary)
            IN  /\ instantaneous_rate_primary[mc][sn] =
                       IF noma >= target_rate_primary_user
                       THEN noma
                       ELSE OmaRateAt(sn, channelGainPrimary)
                /\ instantaneous_rate_secondary[mc][sn] =
                       SecondaryRateAt(sn, channelGainSecondary)

\* a trial whose primary user falls back to OMA at one grid point and uses
\* NOMA at another
C2_Witness ==
    /\ pc = "outage"
    /\ \E sn \in SnrIdx :
          NomaRateAt(sn, channelGainPrimary, channelGainSecondary)
              < target_rate_primary_user
    /\ \E sn \in SnrIdx :
          NomaRateAt(sn, channelGainPrimary, channelGainSecondary)
              >= target_rate_primary_user

\* C3: the primary and the secondary rate returned for a trial are
\* non-decreasing along the SNR grid.
C3_RateMonotone ==
    pc = "outage" =>
        \A sn \in SnrIdx \ {LenSnr - 1} :
            /\ instantaneous_rate_primary[mc][sn]
                   <= instantaneous_rate_primary[mc][sn + 1]
            /\ instantaneous_rate_secondary[mc][sn]
                   <= instantaneous_rate_secondary[mc][sn + 1]

\* the rates are non-decreasing along the grid in every trial whose primary
\* gain is at least its secondary gain
RateMonotoneWhenOrdered ==
    (pc = "outage" /\ channelGainPrimary >= channelGainSecondary) =>
        \A sn \in SnrIdx \ {LenSnr - 1} :
            /\ instantaneous_rate_primary[mc][sn]
                   <= instantaneous_rate_primary[mc][sn + 1]
            /\ instantaneous_rate_secondary[mc][sn]
                   <= instantaneous_rate_secondary[mc][sn + 1]

\* the sum of column sn of a per-trial array
RECURSIVE ColumnSum(_, _, _)
ColumnSum(arr, sn, m) ==
    IF m >= N_mc THEN 0 ELSE arr[m][sn] + ColumnSum(arr, sn, m + 1)

\* C4: the system, primary and secondary outage indicators of every trial
\* are non-increasing along the SNR grid, and so are their sums over the
\* trials (the trial means times N_mc).
C4_OutageMonotone ==
    \A sn \in SnrIdx \ {LenSnr - 1} :
        /\ \A m \in TrialIdx :
              /\ out_probability_system[m][sn] >= out_probability_system[m][sn + 1]
              /\ out_probability_primary_user[m][sn]
                     >= out_probability_primary_user[m][sn + 1]
              /\ out_probability_secondary_user[m][sn]
                     >= out_probability_secondary_user[m][sn + 1]
        /\ ColumnSum(out_probability_system, sn, 0)
               >= ColumnSum(out_probability_system, sn + 1, 0)
        /\ ColumnSum(out_probability_primary_user, sn, 0)
               >= ColumnSum(out_probability_primary_user, sn + 1, 0)
        /\ ColumnSum(out_probability_secondary_user, sn, 0)
               >= ColumnSum(out_probability_secondary_user, sn + 1, 0)

\* every trial is complete, and in one of them each of the two users leaves
\* outage somewhere along the grid
C4_Witness ==
    /\ Completed = TrialIdx
    /\ \E m \in TrialIdx :
          /\ \E sn \in SnrIdx \ {LenSnr - 1} :
                /\ out_probability_primary_user[m][sn] = 1
                /\ out_probability_primary_user[m][sn + 1] = 0
          /\ \E sn \in SnrIdx \ {LenSnr - 1} :
                /\ out_probability_secondary_user[m][sn] = 1
                /\ out_probability_secondary_user[m][sn + 1] = 0

\* C5: for every completed trial and every grid point each indicator is 0
\* or 1, the primary (secondary) indicator is 1 exactly when the stored
\* primary (secondary) rate is below its target, and the system indicator
\* is 1 exactly when one of the two is.
C5_OutageClassification ==
    \A m \in Completed : \A sn \in SnrIdx :
        /\ out_probability_system[m][sn] \in {0, 1}
        /\ out_probability_primary_user[m][sn] \in {0, 1}
        /\ out_probability_secondary_user[m][sn] \in {0, 1}
        /\ out_probability_primary_user[m][sn] = 1
               <=> instantaneous_rate_primary[m][sn] < target_rate_primary_user
        /\ out_probability_secondary_user[m][sn] = 1
               <=> instantaneous_rate_secondary[m][sn] < target_rate_secondary_user
        /\ out_probability_system[m][sn] = 1
               <=> (out_probability_primary_user[m][sn] = 1
                      \/ out_probability_secondary_user[m][sn] = 1)

\* a completed trial with a grid point where only the primary user is in
\* outage and a grid point where nobody is
C5_Witness ==
    \E m \in Completed :
        /\ \E sn \in SnrIdx :
              /\ out_probability_primary_user[m][sn] = 1
              /\ out_probability_secondary_user[m][sn] = 0
              /\ out_probability_system[m][sn] = 1
        /\ \E sn \in SnrIdx : out_probability_system[m][sn] = 0

\* every trial has run and its rows of the indicator and average-rate
\* arrays are written
AllTrialsStored ==
    /\ Len(handed) = N_mc
    /\ mc = N_mc - 1
    /\ \A m \in TrialIdx : \A sn \in SnrIdx :
          /\ out_probability_system[m][sn] = 1
                 <=> (instantaneous_rate_primary[m][sn] < target_rate_primary_user
                        \/ instantaneous_rate_secondary[m][sn]
                               < target_rate_secondary_user)
          /\ 2 * average_rate[m][sn] <=
                 instantaneous_rate_primary[m][sn] + instantaneous_rate_secondary[m][sn]
          /\ 2 * average_rate[m][sn] + 1 >=
                 instantaneous_rate_primary[m][sn] + instantaneous_rate_secondary[m][sn]
          /\ instantaneous_rate_secondary[m][sn] > 0

NoMeans ==
    /\ out_prob_mean = Unbound
    /\ out_prob_primary = Unbound
    /\ out_prob_secondary = Unbound
    /\ average_rate_mean = Unbound

\* C6 as stated: when the run is over, the per-SNR means of the three
\* outage indicators and of the average rate have been computed.
C6_MeansAfterLastTrial ==
    pc = "done" =>
        /\ out_prob_mean # Unbound
        /\ out_prob_primary # Unbound
        /\ out_prob_secondary # Unbound
        /\ average_rate_mean # Unbound

\* C6, amended: a run eventually completes all N_mc trials and ends with
\* every row of the per-trial arrays written; the reduction to per-SNR
\* means is never executed, so no mean array is ever bound.
C6_RunCompletesWithoutReduction ==
    /\ <>[](pc = "done" /\ AllTrialsStored)
    /\ [](NoMeans /\ (pc \in {"figures", "done"} => AllTrialsStored))

\* the run is over, all trials stored, no mean bound
C6_Witness == pc = "done" /\ AllTrialsStored /\ NoMeans

\* nothing of a trial has been executed or written
NothingRun ==
    /\ mc = -1
    /\ handed = << >>
    /\ pc \in {"for", "figures", "done"}
    /\ instantaneous_rate_primary = Zeros2(TrialIdx, SnrIdx)
    /\ instantaneous_rate_secondary = Zeros2(TrialIdx, SnrIdx)
    /\ out_probability_system = Zeros2(TrialIdx, SnrIdx)
    /\ out_probability_primary_user = Zeros2(TrialIdx, SnrIdx)
    /\ out_probability_secondary_user = Zeros2(TrialIdx, SnrIdx)
    /\ average_rate = Zeros2(TrialIdx, SnrIdx)

\* C7 as stated: with an invalid configuration no trial runs and no
\* statistics array is written.
C7_InvalidConfigRejected == (~ValidConfig) => NothingRun

\* C7, amended: the program validates nothing.  With an invalid
\* configuration the run still executes all N_mc trials, and uses the
\* values as given: the secondary SINR is snr*gs*powerCoeff[1] with the
\* coefficient as configured, and the indicators compare with the targets
\* as configured.
C7_InvalidConfigRunsUnchecked ==
    (~ValidConfig /\ pc = "done") =>
        /\ Len(handed) = N_mc
        /\ mc = N_mc - 1
        /\ \A sn \in SnrIdx :
              /\ sinr_secondary[sn] =
                     FixDiv(snr_linear[sn] * channelGainSecondary * powerCoeff[1],
                            PowerUnit * GainUnit)
              /\ \A m \in TrialIdx :
                    out_probability_primary_user[m][sn] = 1
                        <=> instantaneous_rate_primary[m][sn]
                                < target_rate_primary_user

\* a finished run of all trials under an invalid configuration
C7_Witness == ~ValidConfig /\ pc = "done" /\ Len(handed) = N_mc

\* C8: storing the rates of trial mc changes row mc of the rate arrays
\* only, no other statement changes any row, and the row stored is the one
\* stored for every earlier trial that was handed the same two gains.
C8_RatesDependOnGainsOnly ==
    [][ /\ \A m \in TrialIdx :
              \/ pc = "rates" /\ m = mc
              \/ /\ instantaneous_rate_primary'[m] = instantaneous_rate_primary[m]
                 /\ instantaneous_rate_secondary'[m] = instantaneous_rate_secondary[m]
        /\ pc = "rates" =>
              \A m \in 0..(mc - 1) :
                  handed[m + 1] = << channelGainPrimary, channelGainSecondary >>
                      => /\ instantaneous_rate_primary'[mc]
                                = instantaneous_rate_primary[m]
                         /\ instantaneous_rate_secondary'[mc]
                                = instantaneous_rate_secondary[m]
      ]_vars

\* two trials were handed the same gains, a third pair of rows (if any)
\* differs
C8_Witness ==
    /\ pc = "outage"
    /\ mc >= 1
    /\ handed[mc + 1] = handed[mc]
    /\ instantaneous_rate_primary[mc] = instantaneous_rate_primary[mc - 1]
    /\ instantaneous_rate_primary[mc] # Zeros(SnrIdx)

\* C9: the primary and the secondary gain of a trial are the maximum and
\* the minimum of one channel realization, the one generate_Channel left
\* in h_n.
C9_SingleRealization ==
    pc = "rates" =>
        /\ \E uu \in UserIdx : h_n[uu] = channelGainPrimary
        /\ \A uu \in UserIdx : h_n[uu] <= channelGainPrimary
        /\ \E uu \in UserIdx : h_n[uu] = channelGainSecondary
        /\ \A uu \in UserIdx : h_n[uu] >= channelGainSecondary

\* C10: at every grid point where the primary user's NOMA rate is below
\* target_RatePri, the primary rate returned reaches target_RatePri.
C10_FallbackMeetsTarget ==
    pc = "outage" =>
        \A sn \in SnrIdx :
            NomaRateAt(sn, channelGainPrimary, channelGainSecondary)
                    < target_rate_primary_user
                => instantaneous_rate_primary[mc][sn] >= target_rate_primary_user

====
